---- MODULE Spec2Model ----
(***************************************************************************)
(* A model of scripts/cook_soup.py: the license normalizer and registry,   *)
(* the version comparison, the GitHub metadata fetcher, the risk scorer    *)
(* and the main() pipeline that reads the scanner outputs, deduplicates,   *)
(* enriches, sorts and renders SOUP.md.                                    *)
(*                                                                         *)
(* Python strings are sequences of one-character strings, so that          *)
(* casefold, strip, lstrip, rstrip, rsplit and the regular expressions are *)
(* computed character by character.  None is NoneV.  An exception leaving  *)
(* a function is a result [kind |-> "raise", exc |-> <class name>].        *)
(***************************************************************************)
EXTENDS Integers, Sequences, FiniteSets, TLC

VARIABLES
    npm_file,          \* licenses-npm.json: AbsentFile, MalformedFile or its items
    poetry_file,       \* licenses-poetry.json: AbsentFile, MalformedFile or its items
    template_present,  \* whether cook_soup_template.md can be read
    net,               \* what the GitHub API would answer to the three requests
    pc,                \* position of main()
    entries,           \* main(): the concatenated adapter output
    final_entries,     \* main(): the deduplicated (then enriched, sorted) records
    idx,               \* main(): the entry the enrichment loop is at
    soup,              \* SOUP.md: NoFile, or the table rows written
    exc,               \* the exception that ended main(), or "none"
    requests,          \* number of HTTP requests attempted so far
    fn,                \* function harness: the function last called
    args,              \* function harness: its arguments
    ret                \* function harness: its result

vars == <<npm_file, poetry_file, template_present, net, pc, entries,
          final_entries, idx, soup, exc, requests, fn, args, ret>>

(***************************************************************************)
(* Bounds of the model                                                     *)
(***************************************************************************)
MaxLen == 3        \* length of the generated license strings
MaxVerLen == 3     \* length of the generated version strings
MaxItems == 2      \* items in one scanner output file

(***************************************************************************)
(* Python values                                                           *)
(***************************************************************************)
NoneV == <<"None">>

Truthy(x) == x # NoneV /\ x # <<>>

Return(v) == [kind |-> "return", val |-> v]

Raise(e) == [kind |-> "raise", exc |-> e]

UPPER == <<"A","B","C","D","E","F","G","H","I","J","K","L","M","N","O","P","Q","R","S","T","U","V","W","X","Y","Z">>

LOWER == <<"a","b","c","d","e","f","g","h","i","j","k","l","m","n","o","p","q","r","s","t","u","v","w","x","y","z">>

\* The characters of the model in code-point order (str comparison in sort keys).
CHARS == <<"\t"," ","-",".","/","0","1","2","3","4","5","6","7","8","9",":","@","A","B","C","D","E","F","G","H","I","J","K","L","M","N","O","P","Q","R","S","T","U","V","W","X","Y","Z","_","a","b","c","d","e","f","g","h","i","j","k","l","m","n","o","p","q","r","s","t","u","v","w","x","y","z">>

Whitespace == {" ", "\t"}

DIGITS == <<"0","1","2","3","4","5","6","7","8","9">>

IsDigit(c) == \E i \in 1..Len(DIGITS) : DIGITS[i] = c

DigitVal(c) == (CHOOSE i \in 1..Len(DIGITS) : DIGITS[i] = c) - 1

Ord(c) == CHOOSE i \in 1..Len(CHARS) : CHARS[i] = c

LowerChar(c) ==
    IF \E i \in 1..Len(UPPER) : UPPER[i] = c
    THEN LOWER[CHOOSE i \in 1..Len(UPPER) : UPPER[i] = c]
    ELSE c

\* str.casefold() and str.lower() on the ASCII characters of the model
casefold(s) == [i \in 1..Len(s) |-> LowerChar(s[i])]

lower(s) == [i \in 1..Len(s) |-> LowerChar(s[i])]

\* str.lstrip(chars): drop the longest prefix made of characters of chars
lstrip(s, chars) ==
    LET k == CHOOSE n \in 0..Len(s) :
                 /\ \A i \in 1..n : s[i] \in chars
                 /\ (n < Len(s) => s[n + 1] \notin chars)
    IN  SubSeq(s, k + 1, Len(s))

\* str.rstrip(chars): drop the longest suffix made of characters of chars
rstrip(s, chars) ==
    LET k == CHOOSE n \in 0..Len(s) :
                 /\ \A i \in (Len(s) - n + 1)..Len(s) : s[i] \in chars
                 /\ (n < Len(s) => s[Len(s) - n] \notin chars)
    IN  SubSeq(s, 1, Len(s) - k)

\* str.strip(): whitespace off both ends
strip(s) == rstrip(lstrip(s, Whitespace), Whitespace)

\* s < t for str
StrLess(s, t) ==
    \E k \in 1..(Len(t)) :
        /\ \A i \in 1..(k - 1) : i <= Len(s) /\ s[i] = t[i]
        /\ \/ k = Len(s) + 1
           \/ k <= Len(s) /\ Ord(s[k]) < Ord(t[k])

\* All sequences over alphabet of length at most n
RECURSIVE StringsUpTo(_, _)
StringsUpTo(alphabet, n) ==
    IF n = 0 THEN {<<>>}
    ELSE LET shorter == StringsUpTo(alphabet, n - 1)
         IN  shorter \cup {Append(s, c) : s \in shorter, c \in alphabet}

(***************************************************************************)
(* License registry and normalization (lines 30-87)                        *)
(***************************************************************************)
S_unknown == <<"u","n","k","n","o","w","n">>

LICENSE_MAPPING ==
  <<[key |-> <<"a","p","a","c","h","e","-","2",".","0">>, requires_license_file |-> TRUE, is_non_commercial_only |-> FALSE],
    [key |-> <<"m","i","t">>, requires_license_file |-> TRUE, is_non_commercial_only |-> FALSE],
    [key |-> <<"b","s","d">>, requires_license_file |-> TRUE, is_non_commercial_only |-> FALSE],
    [key |-> <<"b","s","d","-","2","-","c","l","a","u","s","e">>, requires_license_file |-> TRUE, is_non_commercial_only |-> FALSE],
    [key |-> <<"b","s","d","-","3","-","c","l","a","u","s","e">>, requires_license_file |-> TRUE, is_non_commercial_only |-> FALSE],
    [key |-> <<"g","p","l","-","2",".","0">>, requires_license_file |-> TRUE, is_non_commercial_only |-> FALSE],
    [key |-> <<"g","p","l","-","3",".","0">>, requires_license_file |-> TRUE, is_non_commercial_only |-> FALSE],
    [key |-> <<"l","g","p","l","-","2",".","1">>, requires_license_file |-> TRUE, is_non_commercial_only |-> FALSE],
    [key |-> <<"l","g","p","l","-","3",".","0">>, requires_license_file |-> TRUE, is_non_commercial_only |-> FALSE],
    [key |-> <<"m","p","l","-","2",".","0">>, requires_license_file |-> TRUE, is_non_commercial_only |-> FALSE],
    [key |-> <<"c","c","0","-","1",".","0">>, requires_license_file |-> FALSE, is_non_commercial_only |-> FALSE],
    [key |-> <<"i","s","c">>, requires_license_file |-> TRUE, is_non_commercial_only |-> FALSE],
    [key |-> <<"a","g","p","l","-","3",".","0">>, requires_license_file |-> TRUE, is_non_commercial_only |-> FALSE],
    [key |-> <<"u","n","l","i","c","e","n","s","e">>, requires_license_file |-> TRUE, is_non_commercial_only |-> FALSE],
    [key |-> <<"c","c","-","b","y","-","n","c","-","4",".","0">>, requires_license_file |-> TRUE, is_non_commercial_only |-> TRUE],
    [key |-> <<"u","n","k","n","o","w","n">>, requires_license_file |-> FALSE, is_non_commercial_only |-> FALSE]>>

\* dict.get(k, default) on LICENSE_MAPPING; the entry keeps its key, which
\* stands for the identity of the License object
MappingGet(k, default) ==
    IF \E i \in 1..Len(LICENSE_MAPPING) : LICENSE_MAPPING[i].key = k
    THEN LICENSE_MAPPING[CHOOSE i \in 1..Len(LICENSE_MAPPING) : LICENSE_MAPPING[i].key = k]
    ELSE default

get_license_object(license_id) ==
    LET normalized == strip(casefold(license_id))
    IN  MappingGet(normalized, MappingGet(S_unknown, NoneV))

normalize_license(license_str) ==
    IF ~Truthy(license_str) THEN S_unknown
    ELSE strip(casefold(license_str))

(***************************************************************************)
(* Version comparison (lines 240-253)                                      *)
(***************************************************************************)
RECURSIVE int(_)
int(digits) ==
    IF digits = <<>> THEN 0
    ELSE 10 * int(SubSeq(digits, 1, Len(digits) - 1)) + DigitVal(digits[Len(digits)])

\* re.match(r"(\d+)\.", s): group 1, or NoneV when there is no match.  \d+ is
\* greedy and a shorter run of digits is followed by a digit, never by the dot.
match_major(s) ==
    LET k == CHOOSE n \in 0..Len(s) :
                 /\ \A i \in 1..n : IsDigit(s[i])
                 /\ (n < Len(s) => ~IsDigit(s[n + 1]))
    IN  IF k >= 1 /\ k < Len(s) /\ s[k + 1] = "."
        THEN SubSeq(s, 1, k)
        ELSE NoneV

parse_major(ver_str) ==
    LET stripped == lstrip(ver_str, {"v"})
        match == match_major(stripped)
    IN  IF match # NoneV THEN int(match) ELSE 0

is_significantly_older(local_version, latest_version) ==
    IF ~Truthy(local_version) \/ ~Truthy(latest_version) THEN FALSE
    ELSE (parse_major(latest_version) - parse_major(local_version)) >= 1

(***************************************************************************)
(* Repository metadata fetcher (lines 145-237)                             *)
(*                                                                         *)
(* A response is [status, data]: status "neterr" (URLError), "timeout",    *)
(* "http403"/"http404"/"http500" (HTTPError), "badjson" (the body is not   *)
(* JSON), "notobj" (JSON, but no object), or "ok" with data the JSON       *)
(* object: data[k] is [present, v], whether key k is there and its value.  *)
(* For the advisories endpoint "ok" carries data.n, the length of the JSON *)
(* list, and "notobj" is JSON that is no list.                             *)
(* A timestamp string is [kind, age, aware]: kind "empty", "bad" (not ISO  *)
(* 8601) or "iso"; age is its distance from now in days.                   *)
(***************************************************************************)
NoDate == [set |-> FALSE, age |-> 0, aware |-> FALSE]

EmptyTS == [kind |-> "empty", age |-> 0, aware |-> FALSE]

DEFAULT_RESULT ==
    [stars |-> 0, last_commit_date |-> NoDate, latest_version |-> NoneV,
     open_issues_count |-> 0, last_release_date |-> NoDate,
     has_known_cve |-> FALSE]

ExceptionClasses ==
    {"URLError", "HTTPError", "TimeoutError", "JSONDecodeError",
     "AttributeError", "ValueError", "TypeError", "NameError",
     "FileNotFoundError"}

\* except <handler>: whether it catches an exception of class e
Catches(handler, e) ==
    \/ handler = "Exception" /\ e \in ExceptionClasses
    \/ handler = e

Handled(handlers, e) == \E h \in handlers : Catches(h, e)

\* dict.get(k, d); obj[k] is [present, v]
JsonGet(obj, k, d) == IF obj[k].present THEN obj[k].v ELSE d

\* urllib.request.urlopen(req, timeout=10), resp.read(), json.loads(...):
\* the exception raised, or "none"
open_and_load(resp) ==
    CASE resp.status = "neterr" -> "URLError"
      [] resp.status = "timeout" -> "TimeoutError"
      [] resp.status \in {"http403", "http404", "http500"} -> "HTTPError"
      [] resp.status = "badjson" -> "JSONDecodeError"
      [] OTHER -> "none"

\* datetime.fromisoformat(s.replace("Z", "+00:00"))
fromisoformat(ts) ==
    IF ts.kind = "iso"
    THEN Return([set |-> TRUE, age |-> ts.age, aware |-> ts.aware])
    ELSE Raise("ValueError")

\* The body of the first try (lines 181-189): [exc, result]
base_body(result, resp) ==
    LET e == open_and_load(resp)
    IN  IF e # "none" THEN [exc |-> e, result |-> result]
        ELSE IF resp.status = "notobj"
        THEN [exc |-> "AttributeError", result |-> result]
        ELSE
        LET data == resp.data
            r1 == [result EXCEPT !.stars = JsonGet(data, "stargazers_count", 0)]
            r2 == [r1 EXCEPT !.open_issues_count =
                                  JsonGet(data, "open_issues_count", 0)]
            pushed_at == JsonGet(data, "pushed_at", EmptyTS)
        IN  IF pushed_at.kind = "empty" THEN [exc |-> "none", result |-> r2]
            ELSE LET d == fromisoformat(pushed_at)
                 IN  IF d.kind = "raise" THEN [exc |-> d.exc, result |-> r2]
                     ELSE [exc |-> "none",
                           result |-> [r2 EXCEPT !.last_commit_date = d.val]]

\* The body of the second try (lines 199-207)
release_body(result, resp) ==
    LET e == open_and_load(resp)
    IN  IF e # "none" THEN [exc |-> e, result |-> result]
        ELSE IF resp.status = "notobj"
        THEN [exc |-> "AttributeError", result |-> result]
        ELSE
        LET data == resp.data
            r1 == [result EXCEPT !.latest_version = JsonGet(data, "tag_name", NoneV)]
            published_at == JsonGet(data, "published_at", EmptyTS)
        IN  IF published_at.kind = "empty" THEN [exc |-> "none", result |-> r1]
            ELSE LET d == fromisoformat(published_at)
                 IN  IF d.kind = "raise" THEN [exc |-> d.exc, result |-> r1]
                     ELSE [exc |-> "none",
                           result |-> [r1 EXCEPT !.last_release_date = d.val]]

\* The body of the third try (lines 222-228); "notobj" is JSON that is no list
advisories_body(result, resp) ==
    LET e == open_and_load(resp)
    IN  IF e # "none" THEN [exc |-> e, result |-> result]
        ELSE IF resp.status = "ok" /\ resp.data.n > 0
        THEN [exc |-> "none", result |-> [result EXCEPT !.has_known_cve = TRUE]]
        ELSE [exc |-> "none", result |-> result]

\* The except clauses of the three try statements (lines 191, 209-214, 230-235)
\* (base_handlers narrowed to HTTP errors)
base_handlers_http_only == {"HTTPError"}

base_handlers == {"Exception"}

release_handlers == {"HTTPError", "Exception"}

advisories_handlers == {"HTTPError", "Exception"}

\* A try statement: the body's result when it ends or its exception is caught
\* (every handler is "pass"), the exception otherwise
Try(body, handlers) ==
    IF body.exc = "none" \/ Handled(handlers, body.exc)
    THEN [exc |-> "none", result |-> body.result]
    ELSE body

fetch_github_repo_info(owner, repo, n) ==
    LET t1 == Try(base_body(DEFAULT_RESULT, n.base), base_handlers)
    IN  IF t1.exc # "none"
        THEN [kind |-> "raise", exc |-> t1.exc, requests |-> <<"base">>]
        ELSE
        LET t2 == Try(release_body(t1.result, n.release), release_handlers)
        IN  IF t2.exc # "none"
            THEN [kind |-> "raise", exc |-> t2.exc,
                  requests |-> <<"base", "release">>]
            ELSE
            LET t3 == Try(advisories_body(t2.result, n.advisories),
                          advisories_handlers)
            IN  IF t3.exc # "none"
                THEN [kind |-> "raise", exc |-> t3.exc,
                      requests |-> <<"base", "release", "advisories">>]
                ELSE [kind |-> "return", val |-> t3.result,
                      requests |-> <<"base", "release", "advisories">>]

(***************************************************************************)
(* Risk scorer (lines 256-331)                                             *)
(***************************************************************************)
S_github == <<"g","i","t","h","u","b",".","c","o","m","/">>

\* The longest run of characters other than "/" that starts at position p
SegmentAt(s, p) ==
    LET k == CHOOSE n \in 0..(Len(s) - p + 1) :
                 /\ \A i \in p..(p + n - 1) : s[i] # "/"
                 /\ (p + n <= Len(s) => s[p + n] = "/")
    IN  SubSeq(s, p, p + k - 1)

\* Whether github\.com/([^/]+)/([^/]+) matches at position p
MatchesAt(s, p) ==
    /\ p + Len(S_github) - 1 <= Len(s)
    /\ SubSeq(s, p, p + Len(S_github) - 1) = S_github
    /\ LET o == p + Len(S_github)
           g1 == SegmentAt(s, o)
       IN  /\ Len(g1) >= 1
           /\ o + Len(g1) <= Len(s)
           /\ Len(SegmentAt(s, o + Len(g1) + 1)) >= 1

\* re.search(r"github\.com/([^/]+)/([^/]+)", s): the groups of the leftmost
\* match (found), or no match
re_search_github(s) ==
    IF \E p \in 1..Len(s) : MatchesAt(s, p)
    THEN LET p == CHOOSE q \in 1..Len(s) :
                      MatchesAt(s, q) /\ \A r \in 1..(q - 1) : ~MatchesAt(s, r)
             o == p + Len(S_github)
             g1 == SegmentAt(s, o)
         IN  [found |-> TRUE, g1 |-> g1, g2 |-> SegmentAt(s, o + Len(g1) + 1)]
    ELSE [found |-> FALSE, g1 |-> <<>>, g2 |-> <<>>]

\* Line 271 calls parse_maintainer_from_url.  The module neither defines nor
\* imports that name, so evaluating the call raises NameError.
parse_maintainer_from_url(repo_url) == Raise("NameError")

\* The thresholds of the scoring rules
StaleCommitDays == 365

LowPopularityStars == 100

IssueRatioLimit == 50

StaleReleaseDays == 730

\* ", ".join(notes_list)
RECURSIVE join(_)
join(notes_list) ==
    IF notes_list = <<>> THEN <<>>
    ELSE IF Len(notes_list) = 1 THEN notes_list
    ELSE <<Head(notes_list), ", ">> \o join(Tail(notes_list))

\* One scoring rule: add its weight and note when it applies
Rule(acc, applies, weight, note) ==
    IF applies
    THEN [score |-> acc.score + weight, notes_list |-> Append(acc.notes_list, note)]
    ELSE acc

\* Lines 282-331: the score, level and notes from the fetched info
score_info(info, local_version) ==
    IF \/ info.last_commit_date.set /\ ~info.last_commit_date.aware
       \/ info.last_release_date.set /\ ~info.last_release_date.aware
    THEN Raise("TypeError")    \* aware now() minus a naive datetime
    ELSE
    LET a0 == [score |-> 0, notes_list |-> <<>>]
        a1 == Rule(a0, /\ info.last_commit_date.set
                       /\ info.last_commit_date.age > StaleCommitDays,
                   1, "Infrequent Commits")
        a2 == Rule(a1, info.stars < LowPopularityStars, 2, "Low Popularity")
        a3 == Rule(a2, is_significantly_older(local_version, info.latest_version),
                   2, "Version Behind Latest")
        stars1 == IF info.stars > 1 THEN info.stars ELSE 1
        a4 == Rule(a3, info.open_issues_count * 100 > IssueRatioLimit * stars1,
                   1, "Excessive Open Issues")
        a5 == Rule(a4, /\ info.last_release_date.set
                       /\ info.last_release_date.age > StaleReleaseDays,
                   1, "Stale Release (>2y)")
        a6 == Rule(a5, info.has_known_cve, 3, "Known CVE/CWEs")
        risk_level == IF a6.score <= 1 THEN "Low"
                      ELSE IF a6.score <= 3 THEN "Medium"
                      ELSE "High"
    IN  Return(<<risk_level, join(a6.notes_list)>>)

\* assess_risk(repo_url, local_version) when the API answers n: the result,
\* the requests it made and the (owner, repo) it passed to the fetcher
assess_risk(repo_url, local_version, n) ==
    LET owner == parse_maintainer_from_url(repo_url)
    IN  IF owner.kind = "raise"
        THEN [kind |-> "raise", exc |-> owner.exc, requests |-> <<>>,
              fetched |-> <<>>]
        ELSE IF ~Truthy(owner.val)
        THEN [kind |-> "return", val |-> <<"Low", <<>>>>, requests |-> <<>>,
              fetched |-> <<>>]
        ELSE
        LET match == re_search_github(repo_url)
        IN  IF ~match.found
            THEN [kind |-> "return", val |-> <<"Low", <<>>>>, requests |-> <<>>,
                  fetched |-> <<>>]
            ELSE
            LET repo_name == rstrip(match.g2, {".", "g", "i", "t"})
                info == fetch_github_repo_info(owner.val, repo_name, n)
            IN  IF info.kind = "raise"
                THEN [kind |-> "raise", exc |-> info.exc,
                      requests |-> info.requests,
                      fetched |-> <<owner.val, repo_name>>]
                ELSE LET r == score_info(info.val, local_version)
                     IN  IF r.kind = "raise"
                         THEN [kind |-> "raise", exc |-> r.exc,
                               requests |-> info.requests,
                               fetched |-> <<owner.val, repo_name>>]
                         ELSE [kind |-> "return", val |-> r.val,
                               requests |-> info.requests,
                               fetched |-> <<owner.val, repo_name>>]

(***************************************************************************)
(* Inputs of the model                                                     *)
(***************************************************************************)
S_https == <<"h","t","t","p","s",":","/","/">>

LicenseAlphabet == {" ", "M", "I", "T"}

LicenseSamples ==
    {<<" ","M","I","T"," ">>, <<"m","i","t">>, <<"u","n","k","n","o","w","n">>, <<"U","n","k","n","o","w","n">>, <<"P","r","o","p","r","i","e","t","a","r","y">>, <<"\t">>}

LicenseInputs == StringsUpTo(LicenseAlphabet, MaxLen) \cup LicenseSamples

VersionAlphabet == {"v", "1", "3", "."}

VersionSamples ==
    {NoneV, <<"1",".","2",".","0">>, <<"v","3",".","0",".","0">>, <<"2",".","0",".","0">>, <<"2",".","9",".","9">>, <<"1","0",".","0">>, <<"u","n","k","n","o","w","n">>}

VersionInputs == StringsUpTo(VersionAlphabet, MaxVerLen) \cup VersionSamples

UrlSamples ==
    {<<>>,
     S_https \o <<"g","i","t","l","a","b",".","c","o","m","/","x","/","y">>,
     S_https \o S_github \o <<"o","/","d","i","g","i","t">>,
     S_https \o S_github \o <<"o","/","r","e","p","o",".","g","i","t">>,
     S_https \o S_github \o <<"o","/","r","e","p","o","/","t","r","e","e">>,
     S_github \o <<"o">>}

Opt(S, d) ==
    {[present |-> FALSE, v |-> d]} \cup {[present |-> TRUE, v |-> x] : x \in S}

Timestamps(ages) ==
    {EmptyTS, [kind |-> "bad", age |-> 0, aware |-> FALSE]}
        \cup {[kind |-> "iso", age |-> a, aware |-> TRUE] : a \in ages}

FailureStatuses ==
    {"neterr", "timeout", "http403", "http404", "http500", "badjson", "notobj"}

NoBaseData ==
    [stargazers_count |-> [present |-> FALSE, v |-> 0],
     open_issues_count |-> [present |-> FALSE, v |-> 0],
     pushed_at |-> [present |-> FALSE, v |-> EmptyTS]]

BaseResponses ==
    {[status |-> st, data |-> NoBaseData] : st \in FailureStatuses}
    \cup {[status |-> "ok", data |-> d] :
            d \in [stargazers_count : Opt({50, 150}, 0),
                   open_issues_count : Opt({0, 100}, 0),
                   pushed_at : Opt(Timestamps({StaleCommitDays,
                                               StaleCommitDays + 1}), EmptyTS)]}

NoReleaseData ==
    [tag_name |-> [present |-> FALSE, v |-> NoneV],
     published_at |-> [present |-> FALSE, v |-> EmptyTS]]

ReleaseResponses ==
    {[status |-> st, data |-> NoReleaseData] : st \in FailureStatuses}
    \cup {[status |-> "ok", data |-> d] :
            d \in [tag_name : Opt({<<"v","3",".","0",".","0">>}, NoneV),
                   published_at : Opt(Timestamps({StaleReleaseDays,
                                                  StaleReleaseDays + 1}), EmptyTS)]}

AdvisoriesResponses ==
    {[status |-> st, data |-> [n |-> 0]] : st \in FailureStatuses}
    \cup {[status |-> "ok", data |-> [n |-> k]] : k \in {0, 1}}

NetAll ==
    [base : BaseResponses, release : ReleaseResponses,
     advisories : AdvisoriesResponses]

\* The answers tried with a whole run: everything fails, or everything succeeds
NetSamples ==
    {n \in NetAll :
        \/ n.base.status = "timeout" /\ n.release.status = "http404"
           /\ n.advisories.status = "http403"
        \/ /\ n.base.status = "ok" /\ n.release.status = "ok"
           /\ n.advisories.status = "ok" /\ n.advisories.data.n = 1
           /\ n.base.data.stargazers_count = [present |-> TRUE, v |-> 150]
           /\ n.base.data.open_issues_count = [present |-> TRUE, v |-> 100]
           /\ n.base.data.pushed_at.present /\ n.base.data.pushed_at.v.kind = "iso"
           /\ n.release.data.tag_name.present
           /\ n.release.data.published_at.present
           /\ n.release.data.published_at.v.kind = "iso"}

(***************************************************************************)
(* Ingestion adapters (lines 90-142)                                       *)
(*                                                                         *)
(* A scanner output file is [state, items]: state "absent", "malformed"    *)
(* (present, but json.load or the walk over its items raises) or "ok".     *)
(* A poetry item maps Name, Version, URL and License to [present, v].  An  *)
(* npm item is [package_key, licenses, repository, url]; licenses is       *)
(* [kind, v] with kind "absent", "str" (v the string) or "list" (v the     *)
(* list of strings); repository and url are [present, v].                  *)
(***************************************************************************)
process_poetry_item(item) ==
    [name |-> JsonGet(item, "Name", <<"U","n","k","n","o","w","n">>),
     version |-> JsonGet(item, "Version", <<"U","n","k","n","o","w","n">>),
     url |-> JsonGet(item, "URL", <<>>),
     license |-> normalize_license(JsonGet(item, "License", <<>>))]

process_poetry_licenses(file) ==
    [i \in 1..Len(file.items) |-> process_poetry_item(file.items[i])]

\* package_key.rsplit("@", 1) when "@" is in package_key
rsplit_at(package_key) ==
    LET k == CHOOSE i \in 1..Len(package_key) :
                 /\ package_key[i] = "@"
                 /\ \A j \in (i + 1)..Len(package_key) : package_key[j] # "@"
    IN  <<SubSeq(package_key, 1, k - 1), SubSeq(package_key, k + 1, Len(package_key))>>

process_npm_item(item) ==
    LET has_at == \E i \in 1..Len(item.package_key) : item.package_key[i] = "@"
        name == IF has_at THEN rsplit_at(item.package_key)[1] ELSE item.package_key
        version == IF has_at THEN rsplit_at(item.package_key)[2] ELSE <<"u","n","k","n","o","w","n">>
        \* info.get("licenses", ""), then the first element of a non-empty
        \* list; an empty list is falsy and normalizes like ""
        license_str == CASE item.licenses.kind = "absent" -> <<>>
                         [] item.licenses.kind = "str" -> item.licenses.v
                         [] item.licenses.kind = "list" ->
                              IF item.licenses.v # <<>> THEN item.licenses.v[1]
                              ELSE <<>>
        repository == JsonGet(item, "repository", NoneV)
        url_field == JsonGet(item, "url", NoneV)
        url == IF Truthy(repository) THEN repository
               ELSE IF Truthy(url_field) THEN url_field
               ELSE <<>>
    IN  [name |-> name, version |-> version, url |-> url,
         license |-> normalize_license(license_str)]

process_npm_licenses(file) ==
    [i \in 1..Len(file.items) |-> process_npm_item(file.items[i])]

(***************************************************************************)
(* main() (lines 334-401)                                                  *)
(***************************************************************************)
Key(e) == <<e.name, e.version, e.license>>

\* Lines 348-353: unique_map, a dict in insertion order, as the list of its values
RECURSIVE unique_values(_, _)
unique_values(es, unique_map) ==
    IF es = <<>> THEN unique_map
    ELSE LET e == Head(es)
         IN  IF \E i \in 1..Len(unique_map) : Key(unique_map[i]) = Key(e)
             THEN unique_values(Tail(es), unique_map)
             ELSE unique_values(Tail(es), Append(unique_map, e))

\* (deduplicate with the last record of a triple winning)
RECURSIVE last_values(_, _)
last_values(es, unique_map) ==
    IF es = <<>> THEN unique_map
    ELSE LET e == Head(es)
         IN  IF \E i \in 1..Len(unique_map) : Key(unique_map[i]) = Key(e)
             THEN last_values(Tail(es),
                      [i \in 1..Len(unique_map) |->
                          IF Key(unique_map[i]) = Key(e) THEN e ELSE unique_map[i]])
             ELSE last_values(Tail(es), Append(unique_map, e))

deduplicate_last_wins(es) == last_values(es, <<>>)

deduplicate(es) == unique_values(es, <<>>)

\* Lines 357-371: one pass of the enrichment loop, given what assess_risk did
enrich_entry(entry, r) ==
    LET license_obj == get_license_object(entry.license)
        req0 == IF license_obj.requires_license_file
                THEN <<"Include License File">>
                ELSE <<"No License File Required">>
        license_req == IF license_obj.is_non_commercial_only
                       THEN Append(req0, ", NON-COMMERCIAL USE ONLY")
                       ELSE req0
        unknown == entry.license = S_unknown
        risk_level == IF unknown THEN "High" ELSE r.val[1]
        notes == IF unknown THEN <<"Unknown License, Manual Review Required">>
                 ELSE r.val[2]
    IN  [name |-> entry.name, version |-> entry.version, url |-> entry.url,
         license |-> entry.license, risk_level |-> risk_level,
         license_req |-> license_req, notes |-> notes]

\* risk_priority.get(level, 999)
UnknownPriority == 999

risk_priority(level) ==
    CASE level = "High" -> 1
      [] level = "Medium" -> 2
      [] level = "Low" -> 3
      [] OTHER -> UnknownPriority

\* Whether the sort key of a is less than the sort key of b
KeyLess(a, b) ==
    \/ risk_priority(a.risk_level) < risk_priority(b.risk_level)
    \/ /\ risk_priority(a.risk_level) = risk_priority(b.risk_level)
       /\ StrLess(lower(a.name), lower(b.name))

\* list.sort(key=...) is stable: each record goes after the records already
\* placed whose key is not greater
insert_sorted(sorted, e) ==
    LET k == CHOOSE n \in 0..Len(sorted) :
                 /\ \A i \in (n + 1)..Len(sorted) : KeyLess(e, sorted[i])
                 /\ (n >= 1 => ~KeyLess(e, sorted[n]))
    IN  SubSeq(sorted, 1, k) \o <<e>> \o SubSeq(sorted, k + 1, Len(sorted))

RECURSIVE sort_entries(_)
sort_entries(es) ==
    IF es = <<>> THEN <<>>
    ELSE insert_sorted(sort_entries(SubSeq(es, 1, Len(es) - 1)), es[Len(es)])

\* Lines 384-393: one table row per entry, in the column order of the header
md_row(e) ==
    <<e.risk_level, e.name, e.version, e.license, e.license_req, e.notes, e.url>>

md_rows(es) == [i \in 1..Len(es) |-> md_row(es[i])]

NoFile == [written |-> FALSE, rows |-> <<>>]

PoetryItems ==
    {[Name |-> [present |-> TRUE, v |-> <<"a">>],
      Version |-> [present |-> TRUE, v |-> <<"1">>],
      URL |-> [present |-> TRUE, v |-> <<>>],
      License |-> [present |-> TRUE, v |-> <<" ","m","i","t"," ">>]],
     [Name |-> [present |-> FALSE, v |-> <<>>],
      Version |-> [present |-> FALSE, v |-> <<>>],
      URL |-> [present |-> FALSE, v |-> <<>>],
      License |-> [present |-> TRUE, v |-> <<>>]],
     [Name |-> [present |-> TRUE, v |-> <<"B">>],
      Version |-> [present |-> TRUE, v |-> <<"2">>],
      URL |-> [present |-> TRUE, v |-> S_https \o S_github \o <<"o","/","r","e","p","o",".","g","i","t">>],
      License |-> [present |-> TRUE, v |-> <<"M","I","T">>]]}

NpmItems ==
    {[package_key |-> <<"a","@","1">>,
      licenses |-> [kind |-> "str", v |-> <<"M","I","T">>],
      repository |-> [present |-> TRUE, v |-> S_https \o S_github \o <<"o","/","d","i","g","i","t">>],
      url |-> [present |-> FALSE, v |-> <<>>]],
     [package_key |-> <<"B","@","2">>,
      licenses |-> [kind |-> "str", v |-> <<" ">>],
      repository |-> [present |-> FALSE, v |-> <<>>],
      url |-> [present |-> TRUE, v |-> <<>>]],
     [package_key |-> <<"c">>,
      licenses |-> [kind |-> "list", v |-> <<<<"P","r","o","p","r","i","e","t","a","r","y">>>>],
      repository |-> [present |-> TRUE, v |-> <<>>],
      url |-> [present |-> TRUE, v |-> S_https \o <<"g","i","t","l","a","b",".","c","o","m","/","x","/","y">>]]}

\* Sequences of at most n items
RECURSIVE ItemSeqs(_, _)
ItemSeqs(items, n) ==
    IF n = 0 THEN {<<>>}
    ELSE LET shorter == ItemSeqs(items, n - 1)
         IN  shorter \cup {Append(s, x) : s \in shorter, x \in items}

\* A JSON object holds each key once
DistinctKeys(s) ==
    \A i, j \in 1..Len(s) : i # j => s[i].package_key # s[j].package_key

Files(seqs) ==
    {[state |-> "absent", items |-> <<>>], [state |-> "malformed", items |-> <<>>]}
        \cup {[state |-> "ok", items |-> s] : s \in seqs}

Init ==
    /\ npm_file \in Files({s \in ItemSeqs(NpmItems, MaxItems) : DistinctKeys(s)})
    /\ poetry_file \in Files(ItemSeqs(PoetryItems, MaxItems))
    /\ template_present \in BOOLEAN
    /\ net \in NetSamples
    /\ pc = "start"
    /\ entries = <<>>
    /\ final_entries = <<>>
    /\ idx = 1
    /\ soup = NoFile
    /\ exc = "none"
    /\ requests = <<>>
    /\ fn = "none" /\ args = <<>> /\ ret = <<>>

inputVars == <<npm_file, poetry_file, template_present, net>>

fnVars == <<fn, args, ret>>

\* Lines 342-343
ReadNpm ==
    /\ pc = "start"
    /\ IF npm_file.state = "malformed"
       THEN pc' = "failed" /\ exc' = "JSONDecodeError" /\ UNCHANGED entries
       ELSE /\ pc' = "npm_read"
            /\ entries' = IF npm_file.state = "ok"
                          THEN entries \o process_npm_licenses(npm_file)
                          ELSE entries
            /\ UNCHANGED exc
    /\ UNCHANGED <<inputVars, final_entries, idx, soup, requests, fnVars>>

\* Lines 344-345
ReadPoetry ==
    /\ pc = "npm_read"
    /\ IF poetry_file.state = "malformed"
       THEN pc' = "failed" /\ exc' = "JSONDecodeError" /\ UNCHANGED entries
       ELSE /\ pc' = "ingested"
            /\ entries' = IF poetry_file.state = "ok"
                          THEN entries \o process_poetry_licenses(poetry_file)
                          ELSE entries
            /\ UNCHANGED exc
    /\ UNCHANGED <<inputVars, final_entries, idx, soup, requests, fnVars>>

\* Lines 347-353
Deduplicate ==
    /\ pc = "ingested"
    /\ final_entries' = deduplicate(entries)
    /\ pc' = "deduped"
    /\ UNCHANGED <<inputVars, entries, idx, soup, exc, requests, fnVars>>

\* Lines 356-371: one pass of the loop; an exception of assess_risk leaves
\* the loop and main()
EnrichEntry ==
    /\ pc \in {"deduped", "enriching"}
    /\ idx <= Len(final_entries)
    /\ LET entry == final_entries[idx]
           r == assess_risk(entry.url, entry.version, net)
       IN  /\ requests' = requests \o r.requests
           /\ IF r.kind = "raise"
              THEN /\ exc' = r.exc
                   /\ pc' = "failed"
                   /\ UNCHANGED <<final_entries, idx>>
              ELSE /\ final_entries' =
                          [final_entries EXCEPT ![idx] = enrich_entry(entry, r)]
                   /\ idx' = idx + 1
                   /\ pc' = "enriching"
                   /\ UNCHANGED exc
    /\ UNCHANGED <<inputVars, entries, soup, fnVars>>

\* Line 356: the loop has gone through every entry
EnrichDone ==
    /\ pc \in {"deduped", "enriching"}
    /\ idx > Len(final_entries)
    /\ pc' = "enriched"
    /\ UNCHANGED <<inputVars, entries, final_entries, idx, soup, exc, requests,
                   fnVars>>

\* Lines 373-377
Sort ==
    /\ pc = "enriched"
    /\ final_entries' = sort_entries(final_entries)
    /\ pc' = "sorted"
    /\ UNCHANGED <<inputVars, entries, idx, soup, exc, requests, fnVars>>

\* Lines 379-401
Render ==
    /\ pc = "sorted"
    /\ IF template_present
       THEN /\ soup' = [written |-> TRUE, rows |-> md_rows(final_entries)]
            /\ pc' = "done"
            /\ UNCHANGED exc
       ELSE /\ pc' = "failed"
            /\ exc' = "FileNotFoundError"
            /\ UNCHANGED soup
    /\ UNCHANGED <<inputVars, entries, final_entries, idx, requests, fnVars>>

Next ==
    \/ ReadNpm
    \/ ReadPoetry
    \/ Deduplicate
    \/ EnrichEntry
    \/ EnrichDone
    \/ Sort
    \/ Render

Spec == Init /\ [][Next]_vars

(***************************************************************************)
(* The functions called on their own                                       *)
(***************************************************************************)
MainIdle ==
    /\ npm_file = [state |-> "absent", items |-> <<>>]
    /\ poetry_file = [state |-> "absent", items |-> <<>>]
    /\ template_present = TRUE
    /\ net = CHOOSE n \in NetSamples : TRUE
    /\ pc = "idle" /\ entries = <<>> /\ final_entries = <<>> /\ idx = 1
    /\ soup = NoFile /\ exc = "none" /\ requests = <<>>

mainVars ==
    <<npm_file, poetry_file, template_present, net, pc, entries,
      final_entries, idx, soup, exc, requests>>

InitFn == MainIdle /\ fn = "none" /\ args = <<>> /\ ret = <<>>

CallNormalizeLicense ==
    /\ fn = "none"
    /\ \E x \in LicenseInputs :
        /\ fn' = "normalize_license"
        /\ args' = <<x>>
        /\ ret' = normalize_license(x)
        /\ UNCHANGED mainVars

CallIsSignificantlyOlder ==
    /\ fn = "none"
    /\ \E local \in VersionInputs, latest \in VersionInputs :
        /\ fn' = "is_significantly_older"
        /\ args' = <<local, latest>>
        /\ ret' = is_significantly_older(local, latest)
        /\ UNCHANGED mainVars

CallFetchGithubRepoInfo ==
    /\ fn = "none"
    /\ \E n \in NetAll :
        /\ fn' = "fetch_github_repo_info"
        /\ args' = <<<<"o">>, <<"r">>, n>>
        /\ ret' = fetch_github_repo_info(<<"o">>, <<"r">>, n)
        /\ UNCHANGED mainVars

CallAssessRisk ==
    /\ fn = "none"
    /\ \E u \in UrlSamples, v \in VersionSamples, n \in NetSamples :
        /\ fn' = "assess_risk"
        /\ args' = <<u, v, n>>
        /\ ret' = assess_risk(u, v, n)
        /\ UNCHANGED mainVars

NextFn ==
    \/ CallNormalizeLicense
    \/ CallIsSignificantlyOlder
    \/ CallFetchGithubRepoInfo
    \/ CallAssessRisk

SpecFn == InitFn /\ [][NextFn]_vars

(***************************************************************************)
(* Properties                                                              *)
(***************************************************************************)
Terminated == pc \in {"done", "failed"}

MalformedPresent ==
    npm_file.state = "malformed" \/ poetry_file.state = "malformed"

\* C1: a run of main() stops without writing SOUP.md exactly when a present
\* input file is malformed or the template is missing; every other run
\* (absent inputs, failing network, any well-formed records) completes and
\* writes SOUP.md.
C1_StopsOnlyOnMalformedInputOrMissingTemplate ==
    Terminated =>
        /\ (pc = "failed") <=> (MalformedPresent \/ ~template_present)
        /\ soup.written <=> (pc = "done")

\* The URL has the shape github.com/<owner>/<repo>
GitHubShape(u) == re_search_github(u).found

\* C2: for a URL that is not of the shape github.com/<owner>/<repo>, and any
\* local version, assess_risk returns (Low, "") and makes no request.
C2_NonGitHubUrlIsLowWithoutRequest ==
    (fn = "assess_risk" /\ ~GitHubShape(args[1])) =>
        /\ ret.kind = "return"
        /\ ret.val = <<"Low", <<>>>>
        /\ ret.requests = <<>>

\* The registry resolves the license to its fallback entry
Unrecognized(license) == get_license_object(license).key = S_unknown

\* C3: once main() has left the enrichment loop, every record whose license
\* the registry resolves to its fallback 'unknown' entry (absent, empty,
\* whitespace-only or no key of the registry) has risk level High.
C3_UnrecognizedLicenseIsHigh ==
    (pc \in {"enriched", "sorted", "done", "failed"} /\ exc # "JSONDecodeError") =>
        \A i \in 1..Len(final_entries) :
            Unrecognized(final_entries[i].license) =>
                /\ "risk_level" \in DOMAIN final_entries[i]
                /\ final_entries[i].risk_level = "High"

\* The rules of the claim in rule-check order: whether each applies
ClaimRules(info, local_version) ==
    <<info.last_commit_date.set /\ info.last_commit_date.age > 365,
      info.stars < 100,
      is_significantly_older(local_version, info.latest_version),
      info.open_issues_count * 100 > 50 * (IF info.stars > 1 THEN info.stars ELSE 1),
      info.last_release_date.set /\ info.last_release_date.age > 730,
      info.has_known_cve>>

ClaimWeights == <<1, 2, 2, 1, 1, 3>>

ClaimLabels ==
    <<"Infrequent Commits", "Low Popularity", "Version Behind Latest",
      "Excessive Open Issues", "Stale Release (>2y)", "Known CVE/CWEs">>

RECURSIVE ClaimTotal(_, _)
ClaimTotal(rules, k) ==
    IF k = 0 THEN 0
    ELSE ClaimTotal(rules, k - 1) + (IF rules[k] THEN ClaimWeights[k] ELSE 0)

ClaimLevel(total) ==
    IF total \in {0, 1} THEN "Low" ELSE IF total \in {2, 3} THEN "Medium" ELSE "High"

\* The labels of the rules that apply, with ", " between them
RECURSIVE ClaimNotes(_, _)
ClaimNotes(rules, k) ==
    IF k = 0 THEN <<>>
    ELSE LET before == ClaimNotes(rules, k - 1)
         IN  IF ~rules[k] THEN before
             ELSE IF before = <<>> THEN <<ClaimLabels[k]>>
             ELSE before \o <<", ", ClaimLabels[k]>>

\* What the claim says the scorer returns for the fetched info
ClaimResult(info, local_version) ==
    LET rules == ClaimRules(info, local_version)
    IN  <<ClaimLevel(ClaimTotal(rules, 6)), ClaimNotes(rules, 6)>>

\* C4: for a GitHub-style URL and any fetched signals, assess_risk returns the
\* level given by the total of the weights of the rules that apply (0-1 Low,
\* 2-3 Medium, 4 or more High) and, as notes, the labels of exactly those rules
\* in rule-check order, comma-joined.
C4_LevelAndNotesFollowTheScore ==
    (fn = "assess_risk" /\ GitHubShape(args[1])) =>
        /\ ret.kind = "return"
        /\ ret.val = ClaimResult(
                fetch_github_repo_info(<<>>, <<>>, args[3]).val, args[2])

\* C5: after the deduplication step the entries are the npm records followed
\* by the poetry records, no two surviving records share (name, version,
\* license), every such triple of the entries survives, and the survivor of
\* a triple is the first entry that has it.
C5_FirstSeenRecordOfEachKeySurvives ==
    pc = "deduped" =>
        /\ entries = (IF npm_file.state = "ok"
                      THEN process_npm_licenses(npm_file) ELSE <<>>)
                     \o (IF poetry_file.state = "ok"
                         THEN process_poetry_licenses(poetry_file) ELSE <<>>)
        /\ \A i, j \in 1..Len(final_entries) :
               i # j => Key(final_entries[i]) # Key(final_entries[j])
        /\ \A k \in 1..Len(entries) :
               \E i \in 1..Len(final_entries) :
                   Key(final_entries[i]) = Key(entries[k])
        /\ \A i \in 1..Len(final_entries) :
               \E k \in 1..Len(entries) :
                   /\ final_entries[i] = entries[k]
                   /\ \A m \in 1..(k - 1) : Key(entries[m]) # Key(entries[k])

\* C5 witness: deduplication has discarded a later record that differs from
\* the survivor of its triple only in url.
C5_LaterDuplicateWithOtherUrlDiscarded ==
    /\ pc = "deduped"
    /\ \E k \in 1..Len(entries), i \in 1..Len(final_entries) :
           /\ Key(entries[k]) = Key(final_entries[i])
           /\ entries[k].url # final_entries[i].url

RowKey(row) == <<row[2], row[3], row[4]>>

RowLess(a, b) ==
    \/ risk_priority(a[1]) < risk_priority(b[1])
    \/ /\ risk_priority(a[1]) = risk_priority(b[1])
       /\ StrLess(lower(a[2]), lower(b[2]))

\* C6: the rows written to the report are the records left by deduplication,
\* one row each, ordered High, Medium, Low and within a level by
\* case-insensitive name, records equal in both keeping their
\* post-deduplication order.
C6_ReportRowsAreStableSorted ==
    (Terminated /\ ~MalformedPresent /\ template_present) =>
        LET d == deduplicate(entries)
            rows == soup.rows
            Pos(row) == CHOOSE i \in 1..Len(d) : Key(d[i]) = RowKey(row)
        IN  /\ soup.written
            /\ Len(rows) = Len(d)
            /\ \A i \in 1..Len(d) :
                   \E j \in 1..Len(rows) : RowKey(rows[j]) = Key(d[i])
            /\ \A i, j \in 1..Len(rows) :
                   i < j => /\ ~RowLess(rows[j], rows[i])
                            /\ (~RowLess(rows[i], rows[j])
                                    => Pos(rows[i]) < Pos(rows[j]))

\* Whether a sub-fetch fails: no 2xx answer, no JSON object (no JSON at all
\* for the advisories), or a timestamp that is not ISO 8601
BadTimestamp(field) == field.present /\ field.v.kind = "bad"

BaseFails(resp) == resp.status # "ok" \/ BadTimestamp(resp.data.pushed_at)

ReleaseFails(resp) == resp.status # "ok" \/ BadTimestamp(resp.data.published_at)

AdvisoriesFails(resp) == resp.status \notin {"ok", "notobj"}

DateOf(field) ==
    IF field.present /\ field.v.kind = "iso"
    THEN [set |-> TRUE, age |-> field.v.age, aware |-> field.v.aware]
    ELSE NoDate

\* C7 as stated: fetch_github_repo_info never raises, attempts its three
\* sub-fetches whatever the others do, and a failing sub-fetch leaves all of
\* its own fields at their defaults.
C7_FailingSubFetchLeavesAllItsFieldsDefault ==
    fn = "fetch_github_repo_info" =>
        /\ ret.kind = "return"
        /\ ret.requests = <<"base", "release", "advisories">>
        /\ BaseFails(args[3].base) =>
               /\ ret.val.stars = 0
               /\ ret.val.open_issues_count = 0
               /\ ret.val.last_commit_date = NoDate
        /\ ReleaseFails(args[3].release) =>
               /\ ret.val.latest_version = NoneV
               /\ ret.val.last_release_date = NoDate
        /\ AdvisoriesFails(args[3].advisories) => ret.val.has_known_cve = FALSE

\* C7 amended: fetch_github_repo_info never raises and attempts its three
\* sub-fetches whatever the others do; each sub-fetch decides its own fields
\* from its own response alone: without a 2xx JSON object they all keep their
\* defaults, with one the plain fields (stars, open_issues_count;
\* latest_version) take the values read, and the timestamp is set only when
\* it is ISO 8601, so a malformed timestamp leaves the timestamp alone at its
\* default; has_known_cve is true exactly for a 2xx non-empty list.
C7_SubFetchesAreIsolated ==
    fn = "fetch_github_repo_info" =>
        LET b == args[3].base
            r == args[3].release
            a == args[3].advisories
        IN  /\ ret.kind = "return"
            /\ ret.requests = <<"base", "release", "advisories">>
            /\ ret.val.stars =
                   (IF b.status = "ok" /\ b.data.stargazers_count.present
                    THEN b.data.stargazers_count.v ELSE 0)
            /\ ret.val.open_issues_count =
                   (IF b.status = "ok" /\ b.data.open_issues_count.present
                    THEN b.data.open_issues_count.v ELSE 0)
            /\ ret.val.last_commit_date =
                   (IF b.status = "ok" THEN DateOf(b.data.pushed_at) ELSE NoDate)
            /\ ret.val.latest_version =
                   (IF r.status = "ok" /\ r.data.tag_name.present
                    THEN r.data.tag_name.v ELSE NoneV)
            /\ ret.val.last_release_date =
                   (IF r.status = "ok" THEN DateOf(r.data.published_at) ELSE NoDate)
            /\ ret.val.has_known_cve = (a.status = "ok" /\ a.data.n > 0)

\* C7 witness: the base sub-fetch fails on a malformed timestamp after reading
\* the stars, the release sub-fetch fails on the network, and the advisories
\* sub-fetch still sets its flag.
C7_FailuresBesideASuccess ==
    /\ fn = "fetch_github_repo_info"
    /\ args[3].base.status = "ok"
    /\ BadTimestamp(args[3].base.data.pushed_at)
    /\ args[3].release.status = "neterr"
    /\ ret.kind = "return"
    /\ ret.val.stars = 150
    /\ ret.val.last_commit_date = NoDate
    /\ ret.val.latest_version = NoneV
    /\ ret.val.has_known_cve

\* C8: normalize_license is idempotent, maps "" to "unknown", and ignores case
\* and surrounding whitespace (" MIT " gives "mit").
C8_NormalizeIsIdempotent ==
    fn = "normalize_license" =>
        /\ normalize_license(ret) = ret
        /\ (args[1] = <<>> => ret = S_unknown)
        /\ (args[1] = <<" ","M","I","T"," ">> => ret = <<"m","i","t">>)

\* The leading integer of a version after one optional leading "v"; 0 when
\* the version does not start with a digit
ClaimMajor(ver) ==
    LET body == IF ver # <<>> /\ ver[1] = "v" THEN Tail(ver) ELSE ver
        k == CHOOSE n \in 0..Len(body) :
                 /\ \A i \in 1..n : IsDigit(body[i])
                 /\ (n < Len(body) => ~IsDigit(body[n + 1]))
    IN  int(SubSeq(body, 1, k))

\* C9: is_significantly_older(local, latest) is true exactly when both
\* versions are present and the leading integer of latest exceeds the leading
\* integer of local by 1 or more, bare integers such as "1" and "v3" included.
C9_OlderExactlyWhenMajorBehind ==
    fn = "is_significantly_older" =>
        ret = (/\ Truthy(args[1])
               /\ Truthy(args[2])
               /\ ClaimMajor(args[2]) - ClaimMajor(args[1]) >= 1)

S_dotgit == <<".","g","i","t">>

\* The repo segment without a trailing ".git"
WithoutGitSuffix(repo) ==
    IF /\ Len(repo) >= Len(S_dotgit)
       /\ SubSeq(repo, Len(repo) - Len(S_dotgit) + 1, Len(repo)) = S_dotgit
    THEN SubSeq(repo, 1, Len(repo) - Len(S_dotgit))
    ELSE repo

\* C10: for a URL of the shape github.com/<owner>/<repo>, assess_risk passes
\* to the fetcher the owner segment and the repo segment with only a trailing
\* ".git" removed.
C10_FetcherGetsOwnerAndRepo ==
    (fn = "assess_risk" /\ GitHubShape(args[1])) =>
        ret.fetched = <<re_search_github(args[1]).g1,
                        WithoutGitSuffix(re_search_github(args[1]).g2)>>

====
